---------------------------- MODULE Spec2Model ----------------------------
(***************************************************************************)
(* A model of dangodev/canvas: the 4x4 matrix library (src/lib/mat4.ts and *)
(* its compiled sibling src/lib/mat4.js), the wireframe cube demo          *)
(* (src/cubes.ts) and the initialisation of the two WebGL demos.           *)
(*                                                                         *)
(* Numbers.  A JavaScript number is modelled as an exact rational <<n, d>> *)
(* in lowest terms with d > 0, extended with the three non-finite values   *)
(* the code can produce by dividing by zero: <<1, 0>> is Infinity,         *)
(* <<-1, 0>> is -Infinity and <<0, 0>> is NaN.  Arithmetic is exact: the   *)
(* rounding of IEEE doubles and of Float32Array storage, and the sign of   *)
(* zero, are not modelled.  Math.sin, Math.cos, Math.tan and Math.hypot    *)
(* are evaluated exactly on arguments where their value is rational.       *)
(*                                                                         *)
(* Objects.  A Float32Array is an entry of the sequence heap; its identity *)
(* is its index.  Every library call appends a record to calls, holding    *)
(* the argument's value before the call and the returned value.            *)
(*                                                                         *)
(* Each script is a specification of its own over its own variables; the   *)
(* variables of the other scripts keep their idle values.                  *)
(***************************************************************************)
EXTENDS Integers, Sequences, FiniteSets, TLC

VARIABLES
    lib,        \* which build of the library is loaded: "ts" or "js"
    heap,       \* the Float32Array objects allocated so far, by identity
    calls,      \* history: one record per library call, in call order
    limit,      \* the number of library calls the client makes
    \* the page a demo runs in
    clientWidth,        \* canvas.clientWidth, as it is now
    clientHeight,       \* canvas.clientHeight, as it is now
    pending,            \* callbacks requestAnimationFrame holds for the next refresh
    frame,              \* history: the parity of the number of frames run
    \* src/cubes.ts
    canvasSize,         \* <<canvas.width, canvas.height>>, set when the script loads
    FIELD_OF_VIEW,      \* the global set when the script loads
    shapes,             \* the global array of Cube objects
    ops,                \* the calls made on ctx by the script's latest run
    drawn,              \* history: the shapes draw() was called on in the latest frame
    projections,        \* history: the calls of project() in the latest frame
    \* src/rainbow-square/script.ts and src/rotating-cube/script.js
    demo,               \* which of the two scripts the page loads
    backend,            \* what the WebGL implementation answers about the shaders
    mainState,          \* "loading" until main() has run, then "returned" or "threw"
    thrown,             \* the message of the Error main() threw, "" if none
    glCalls,            \* the calls made on gl by the script's latest run
    glBuffers,          \* the buffer objects of the context and their data
    image,              \* the Image of loadTexture: "none", "loading" or "loaded"
    then,               \* the variable then of main, in seconds
    cubeRotation        \* the global cubeRotation, in radians

matVars == <<lib, heap, calls, limit>>

pageVars == <<clientWidth, clientHeight, pending, frame>>

cubeVars == <<canvasSize, FIELD_OF_VIEW, shapes, ops, drawn, projections>>

glVars == <<demo, backend, mainState, thrown, glCalls, glBuffers, image, then,
            cubeRotation>>

vars == <<matVars, pageVars, cubeVars, glVars>>

---------------------------------------------------------------------------
(* Bounds of the model *)

\* library calls in one behaviour of MatSpec and of PerspSpec
MaxCalls == 2
\* library calls in one behaviour of OrderSpec
MaxOrderCalls == 5
\* dense input matrices a client hands to the library
NumSamples == 2

---------------------------------------------------------------------------
(* JavaScript numbers *)

Abs(n) == IF n < 0 THEN -n ELSE n

Sign(n) == IF n > 0 THEN 1 ELSE IF n < 0 THEN -1 ELSE 0

RECURSIVE GCD(_, _)
GCD(a, b) == IF b = 0 THEN a ELSE GCD(b, a % b)

\* the number n/d, in lowest terms; n/0 is Infinity, -Infinity or NaN
Num(n, d) ==
    IF d = 0 THEN <<Sign(n), 0>>
    ELSE LET g == GCD(Abs(n), Abs(d))
         IN  <<(Sign(d) * n) \div g, Abs(d) \div g>>

Lit(n) == <<n, 1>>
Infinity == <<1, 0>>
NaN == <<0, 0>>

IsFinite(a) == a[2] # 0
IsNaN(a) == a = NaN

\* a * b
Mul(a, b) ==
    IF a[2] = 0 \/ b[2] = 0
    THEN <<Sign(a[1]) * Sign(b[1]), 0>>
    ELSE LET g1 == GCD(Abs(a[1]), b[2])
             g2 == GCD(Abs(b[1]), a[2])
         IN  Num((a[1] \div g1) * (b[1] \div g2), (a[2] \div g2) * (b[2] \div g1))

\* a + b
Add(a, b) ==
    IF IsNaN(a) \/ IsNaN(b) THEN NaN
    ELSE IF a[2] = 0 /\ b[2] = 0 THEN (IF a = b THEN a ELSE NaN)
    ELSE IF a[2] = 0 THEN a
    ELSE IF b[2] = 0 THEN b
    ELSE LET g == GCD(a[2], b[2])
         IN  Num(a[1] * (b[2] \div g) + b[1] * (a[2] \div g), (a[2] \div g) * b[2])

\* -a
Neg(a) == <<-a[1], a[2]>>

\* a - b
Sub(a, b) == Add(a, Neg(b))

\* 1 / a
Inv(a) ==
    IF a[1] > 0 THEN <<a[2], a[1]>>
    ELSE IF a[1] < 0 THEN <<-a[2], -a[1]>>
    ELSE IF a[2] = 0 THEN NaN ELSE Infinity

\* a / b
Div(a, b) == Mul(a, Inv(b))

\* a < b, false when either is NaN
Less(a, b) ==
    /\ ~IsNaN(a) /\ ~IsNaN(b)
    /\ IF a[2] = 0 /\ b[2] = 0 THEN a[1] < b[1]
       ELSE IF a[2] = 0 THEN a[1] < 0
       ELSE IF b[2] = 0 THEN b[1] > 0
       ELSE a[1] * b[2] < b[1] * a[2]

\* Math.floor on a finite number
Floor(a) == Lit(a[1] \div a[2])

\* the integer square root of a perfect square
ISqrt(n) == CHOOSE r \in 0..n : r * r = n

\* Math.sqrt on the square of a rational
Sqrt(a) == <<ISqrt(a[1]), ISqrt(a[2])>>

\* Math.hypot(x, y, z)
Hypot(x, y, z) == Sqrt(Add(Add(Mul(x, x), Mul(y, y)), Mul(z, z)))

(***************************************************************************)
(* An angle is <<q, k>>, standing for q * (pi/2) + k * alpha radians where *)
(* alpha = atan(3/4), the angles whose sine and cosine are rational.       *)
(***************************************************************************)
RECURSIVE CosSin(_)
CosSin(rad) ==
    IF rad[2] > 0
    THEN LET p == CosSin(<<rad[1], rad[2] - 1>>)
         IN  <<Sub(Mul(p[1], Num(4, 5)), Mul(p[2], Num(3, 5))),
               Add(Mul(p[2], Num(4, 5)), Mul(p[1], Num(3, 5)))>>
    ELSE IF rad[2] < 0
    THEN LET p == CosSin(<<rad[1], rad[2] + 1>>)
         IN  <<Add(Mul(p[1], Num(4, 5)), Mul(p[2], Num(3, 5))),
               Sub(Mul(p[2], Num(4, 5)), Mul(p[1], Num(3, 5)))>>
    ELSE CASE rad[1] % 4 = 0 -> <<Lit(1), Lit(0)>>
           [] rad[1] % 4 = 1 -> <<Lit(0), Lit(1)>>
           [] rad[1] % 4 = 2 -> <<Lit(-1), Lit(0)>>
           [] rad[1] % 4 = 3 -> <<Lit(0), Lit(-1)>>

\* Math.sin(rad)
Sin(rad) == CosSin(rad)[2]

\* Math.cos(rad)
Cos(rad) == CosSin(rad)[1]

\* -rad
NegAngle(rad) == <<-rad[1], -rad[2]>>

(***************************************************************************)
(* A vertical field of view is named by the tangent of its half:           *)
(* fovy = 2 * atan(h) is the number h, so Math.tan(fovy / 2) is h.         *)
(***************************************************************************)
TanHalf(fovy) == fovy

---------------------------------------------------------------------------
(* Linear algebra the claims are stated in *)

\* the 4x4 product A * B of column-major matrices
MatMul(A, B) ==
    [i \in 1..16 |->
        LET col == (i - 1) \div 4
            row == (i - 1) % 4
        IN  Add(Add(Add(Mul(A[row + 1], B[4 * col + 1]),
                        Mul(A[row + 5], B[4 * col + 2])),
                    Mul(A[row + 9], B[4 * col + 3])),
                Mul(A[row + 13], B[4 * col + 4]))]

\* the 4x4 matrix m applied to the point (v, 1)
MatPoint(m, v) ==
    [row \in 1..4 |->
        Add(Add(Add(Mul(m[row], v[1]), Mul(m[row + 4], v[2])), Mul(m[row + 8], v[3])),
            m[row + 12])]

\* Rodrigues' rotation R = c I + s [k]x + (1 - c) k k^T about the unit vector k, as
\* a column-major 4x4 matrix
RodriguesUnit(k, s, c) ==
    [i \in 1..16 |->
        LET col == ((i - 1) \div 4) + 1
            row == ((i - 1) % 4) + 1
            cross == <<<<Lit(0), Neg(k[3]), k[2]>>,
                       <<k[3], Lit(0), Neg(k[1])>>,
                       <<Neg(k[2]), k[1], Lit(0)>>>>
        IN  IF row = 4 \/ col = 4
            THEN (IF row = col THEN Lit(1) ELSE Lit(0))
            ELSE Add(Add(IF row = col THEN c ELSE Lit(0),
                         Mul(s, cross[row][col])),
                     Mul(Sub(Lit(1), c), Mul(k[row], k[col])))]

\* the axis divided by its Euclidean length
UnitVector(axis, norm) == <<Div(axis[1], norm), Div(axis[2], norm), Div(axis[3], norm)>>

\* Rodrigues' rotation by rad about axis / |axis|
Rodrigues4(rad, axis) ==
    RodriguesUnit(UnitVector(axis, Hypot(axis[1], axis[2], axis[3])), Sin(rad), Cos(rad))

---------------------------------------------------------------------------
(* src/lib/mat4.ts and src/lib/mat4.js on values *)

\* element i (0-based, column-major) of the Float32Array m
El(m, i) == m[i + 1]

\* create(): the identity
create ==
    <<Lit(1), Lit(0), Lit(0), Lit(0),
      Lit(0), Lit(1), Lit(0), Lit(0),
      Lit(0), Lit(0), Lit(1), Lit(0),
      Lit(0), Lit(0), Lit(0), Lit(1)>>

\* the value null (of perspective's far)
Null == <<>>

\* far != null && far !== Infinity
FarIsFinite(far) == far # Null /\ far # Infinity

\* depthElements with the factor 2 of element 14 left out
depthElementsNoFactor(mat4, near, far) ==
    IF FarIsFinite(far)
    THEN LET nf == Div(Lit(1), Sub(near, far))
         IN  [mat4 EXCEPT ![11] = Mul(Add(far, near), nf),
                          ![15] = Mul(Mul(far, near), nf)]
    ELSE [mat4 EXCEPT ![11] = Lit(-1),
                      ![15] = Mul(Lit(-2), near)]

\* perspective, the branch on far (mat4.ts lines 46-53, mat4.js lines 45-53):
\* elements 10 and 14 of mat4
depthElements(mat4, near, far) ==
    IF FarIsFinite(far)
    THEN LET nf == Div(Lit(1), Sub(near, far))
         IN  [mat4 EXCEPT ![11] = Mul(Add(far, near), nf),
                          ![15] = Mul(Mul(Mul(Lit(2), far), near), nf)]
    ELSE [mat4 EXCEPT ![11] = Lit(-1),
                      ![15] = Mul(Lit(-2), near)]

\* the literal perspective of mat4.ts starts from
perspectiveLiteral(f, aspect) ==
    <<Div(f, aspect), Lit(0), Lit(0), Lit(0),
      Lit(0), f, Lit(0), Lit(0),
      Lit(0), Lit(0), Lit(0), Lit(-1),
      Lit(0), Lit(0), Lit(0), Lit(0)>>

\* perspective of mat4.ts
perspective(fovy, aspect, near, far) ==
    depthElements(perspectiveLiteral(Div(Lit(1), TanHalf(fovy)), aspect), near, far)

\* the assignments perspective of mat4.js makes to create(): every element but 10
\* and 14
perspectiveAssignments(f, aspect) ==
    [create EXCEPT ![1] = Div(f, aspect), ![2] = Lit(0), ![3] = Lit(0),
                   ![4] = Lit(0), ![5] = Lit(0), ![6] = f,
                   ![7] = Lit(0), ![8] = Lit(0), ![9] = Lit(0),
                   ![10] = Lit(0), ![12] = Lit(-1), ![13] = Lit(0),
                   ![14] = Lit(0), ![16] = Lit(0)]

\* perspective of mat4.js
perspectiveJs(fovy, aspect, near, far) ==
    depthElements(perspectiveAssignments(Div(Lit(1), TanHalf(fovy)), aspect), near, far)

\* a*b + c*d + e*f, as the rotation's products are written
Sum3(a, b, c, d, e, f) == Add(Add(Mul(a, b), Mul(c, d)), Mul(e, f))

\* normalizedAxis with the scaling left out
axisAsGiven(axis) == axis

\* rotate, lines 66-72: the axis scaled by 1 / Math.hypot(x, y, z)
normalizedAxis(axis) ==
    LET len == Div(Lit(1), Hypot(axis[1], axis[2], axis[3]))
    IN  <<Mul(axis[1], len), Mul(axis[2], len), Mul(axis[3], len)>>

\* rotate, lines 76-89: the elements b00..b22 from the unit axis n, s and c
rotationMatrix(n, s, c) ==
    LET x == n[1]
        y == n[2]
        z == n[3]
        t == Sub(Lit(1), c)
    IN  [b00 |-> Add(Mul(Mul(x, x), t), c),
         b01 |-> Add(Mul(Mul(y, x), t), Mul(z, s)),
         b02 |-> Sub(Mul(Mul(z, x), t), Mul(y, s)),
         b10 |-> Sub(Mul(Mul(x, y), t), Mul(z, s)),
         b11 |-> Add(Mul(Mul(y, y), t), c),
         b12 |-> Add(Mul(Mul(z, y), t), Mul(x, s)),
         b20 |-> Add(Mul(Mul(x, z), t), Mul(y, s)),
         b21 |-> Sub(Mul(Mul(y, z), t), Mul(x, s)),
         b22 |-> Add(Mul(Mul(z, z), t), c)]

\* rotationElements with the sine and the cosine exchanged
rotationElementsSwapped(rad, axis) ==
    rotationMatrix(normalizedAxis(axis), Cos(rad), Sin(rad))

\* rotate, lines 66-89: the rotation's elements for an angle and an axis
rotationElements(rad, axis) == rotationMatrix(normalizedAxis(axis), Sin(rad), Cos(rad))

\* rotate, lines 78 and 91-98: the product of a's first three columns with b
rotationProduct(a, b) ==
    LET a00 == El(a, 0)  a01 == El(a, 1)  a02 == El(a, 2)   a03 == El(a, 3)
        a10 == El(a, 4)  a11 == El(a, 5)  a12 == El(a, 6)   a13 == El(a, 7)
        a20 == El(a, 8)  a21 == El(a, 9)  a22 == El(a, 10)  a23 == El(a, 11)
        b00 == b.b00  b01 == b.b01  b02 == b.b02
        b10 == b.b10  b11 == b.b11  b12 == b.b12
        b20 == b.b20  b21 == b.b21  b22 == b.b22
    IN  <<Sum3(a00, b00, a10, b01, a20, b02), Sum3(a01, b00, a11, b01, a21, b02),
          Sum3(a02, b00, a12, b01, a22, b02), Sum3(a03, b00, a13, b01, a23, b02),
          Sum3(a00, b10, a10, b11, a20, b12), Sum3(a01, b10, a11, b11, a21, b12),
          Sum3(a02, b10, a12, b11, a22, b12), Sum3(a03, b10, a13, b11, a23, b12),
          Sum3(a00, b20, a10, b21, a20, b22), Sum3(a01, b20, a11, b21, a21, b22),
          Sum3(a02, b20, a12, b21, a22, b22), Sum3(a03, b20, a13, b21, a23, b22),
          El(a, 12), El(a, 13), El(a, 14), El(a, 15)>>

\* rotate as the generic product R * a, which turns the translation column too
rotateGeneric(a, rad, axis) == MatMul(Rodrigues4(rad, axis), a)

\* rotate of mat4.ts on the value a
rotate(a, rad, axis) == rotationProduct(a, rotationElements(rad, axis))

\* p*x + q*y + r*z + w, as the translation column is written
Dot3Plus(p, x, q, y, r, z, w) == Add(Add(Add(Mul(p, x), Mul(q, y)), Mul(r, z)), w)

\* translateColumn along the world axes, the rotation part of a ignored
translateColumnWorld(a, v) ==
    <<Add(El(a, 12), v[1]), Add(El(a, 13), v[2]), Add(El(a, 14), v[3]), El(a, 15)>>

\* the four elements translate computes: elements 12..15
translateColumn(a, v) ==
    <<Dot3Plus(El(a, 0), v[1], El(a, 4), v[2], El(a, 8), v[3], El(a, 12)),
      Dot3Plus(El(a, 1), v[1], El(a, 5), v[2], El(a, 9), v[3], El(a, 13)),
      Dot3Plus(El(a, 2), v[1], El(a, 6), v[2], El(a, 10), v[3], El(a, 14)),
      Dot3Plus(El(a, 3), v[1], El(a, 7), v[2], El(a, 11), v[3], El(a, 15))>>

\* translate of mat4.ts on the value a
translate(a, v) ==
    <<El(a, 0), El(a, 1), El(a, 2), El(a, 3),
      El(a, 4), El(a, 5), El(a, 6), El(a, 7),
      El(a, 8), El(a, 9), El(a, 10), El(a, 11)>> \o translateColumn(a, v)

---------------------------------------------------------------------------
(* The library on objects: every function returns a new Float32Array *)

\* new Float32Array(values): a new object on the heap h
Alloc(h, values) == [heap |-> Append(h, values), ret |-> Len(h) + 1]

\* create() of either build
createCall(h) == Alloc(h, create)

\* perspective(fovy, aspect, near, far) of mat4.ts
perspectiveCall(h, fovy, aspect, near, far) ==
    Alloc(h, perspective(fovy, aspect, near, far))

\* perspective(fovy, aspect, near, far) of mat4.js
perspectiveJsCall(h, fovy, aspect, near, far) ==
    Alloc(h, perspectiveJs(fovy, aspect, near, far))

\* rotate(a, rad, axis) of mat4.ts, a an object of h
rotateCall(h, a, rad, axis) == Alloc(h, rotate(h[a], rad, axis))

\* translate(a, v) of mat4.ts, a an object of h
translateCall(h, a, v) == Alloc(h, translate(h[a], v))

\* translateJsCall writing into its argument and returning it
translateJsInPlace(h, a, v) ==
    [heap |-> [h EXCEPT ![a] = translate(h[a], v)], ret |-> a]

\* translate(a, v) of mat4.js: the copy new Float32Array(a), then the branch on
\* a === mat4, each branch writing the copy's elements
translateJsCall(h, a, v) ==
    LET new == Alloc(h, h[a])
        mat4 == new.ret
        col == translateColumn(new.heap[a], v)
    IN  IF a = mat4
        THEN [heap |-> [new.heap EXCEPT ![mat4] =
                          [@ EXCEPT ![13] = col[1], ![14] = col[2],
                                    ![15] = col[3], ![16] = col[4]]],
              ret |-> mat4]
        ELSE [heap |-> [new.heap EXCEPT ![mat4] = translate(new.heap[a], v)],
              ret |-> mat4]

---------------------------------------------------------------------------
(* Inputs of the matrix specifications *)

\* a dense matrix a caller may build: entries k-ths of small integers
SampleMatrix(k) == [i \in 1..16 |-> Num((((i - 1) * (i - 1) * k + 3 * (i - 1) + k) % 7) - 3, k)]

MatAngles == {<<1, 0>>, <<0, 1>>, <<0, -1>>}

ZeroAxis == <<Lit(0), Lit(0), Lit(0)>>

MatAxes == {<<Lit(0), Lit(0), Lit(1)>>, <<Lit(1), Lit(2), Lit(2)>>, ZeroAxis}

MatVectors == {<<Lit(0), Lit(0), Lit(-6)>>, <<Num(1, 2), Lit(-1), Lit(2)>>}

\* <<fovy, aspect, near, far>>
MatFrusta == {<<Lit(1), Num(4, 3), Num(1, 10), Lit(100)>>}

---------------------------------------------------------------------------
(* The matrix library called by an arbitrary client *)

\* one record of calls
Call(op, a, args, h, r) ==
    [op |-> op, a |-> a, args |-> args, before |-> h, ret |-> r.ret,
     out |-> r.heap[r.ret]]

\* no page is open
PageIdle ==
    /\ clientWidth = Lit(0)
    /\ clientHeight = Lit(0)
    /\ pending = 0
    /\ frame = 0

\* src/cubes.ts is not loaded
CubeIdle ==
    /\ canvasSize = <<Lit(0), Lit(0)>>
    /\ FIELD_OF_VIEW = Lit(0)
    /\ shapes = <<>>
    /\ ops = <<>>
    /\ drawn = <<>>
    /\ projections = <<>>

\* no WebGL demo is loaded
GlIdle ==
    /\ demo = "none"
    /\ backend = <<>>
    /\ mainState = "none"
    /\ thrown = ""
    /\ glCalls = <<>>
    /\ glBuffers = <<>>
    /\ image = "none"
    /\ then = <<0, 0>>
    /\ cubeRotation = <<0, 0>>

\* the matrix library is not called from outside a demo
MatIdle ==
    /\ lib = "none"
    /\ heap = <<>>
    /\ calls = <<>>
    /\ limit = 0

\* the matrices a client holds before it calls the library
InputMatrices == {create} \cup {SampleMatrix(k) : k \in 1..NumSamples}

MatInit ==
    /\ lib \in {"ts", "js"}
    /\ heap \in {<<m>> : m \in InputMatrices}
    /\ calls = <<>>
    /\ limit = MaxCalls
    /\ PageIdle
    /\ CubeIdle
    /\ GlIdle

Create ==
    /\ Len(calls) < limit
    /\ LET r == createCall(heap)
       IN  /\ heap' = r.heap
           /\ calls' = Append(calls, Call("create", 0, <<>>, heap, r))
    /\ UNCHANGED <<lib, limit>>
    /\ UNCHANGED <<pageVars, cubeVars, glVars>>

Perspective(fovy, aspect, near, far) ==
    /\ lib = "ts"
    /\ Len(calls) < limit
    /\ LET r == perspectiveCall(heap, fovy, aspect, near, far)
       IN  /\ heap' = r.heap
           /\ calls' = Append(calls,
                 Call("perspective", 0, <<fovy, aspect, near, far>>, heap, r))
    /\ UNCHANGED <<lib, limit>>
    /\ UNCHANGED <<pageVars, cubeVars, glVars>>

PerspectiveJs(fovy, aspect, near, far) ==
    /\ lib = "js"
    /\ Len(calls) < limit
    /\ LET r == perspectiveJsCall(heap, fovy, aspect, near, far)
       IN  /\ heap' = r.heap
           /\ calls' = Append(calls,
                 Call("perspective", 0, <<fovy, aspect, near, far>>, heap, r))
    /\ UNCHANGED <<lib, limit>>
    /\ UNCHANGED <<pageVars, cubeVars, glVars>>

Rotate(a, rad, axis) ==
    /\ lib = "ts"
    /\ Len(calls) < limit
    /\ a \in 1..Len(heap)
    /\ LET r == rotateCall(heap, a, rad, axis)
       IN  /\ heap' = r.heap
           /\ calls' = Append(calls, Call("rotate", a, <<rad, axis>>, heap, r))
    /\ UNCHANGED <<lib, limit>>
    /\ UNCHANGED <<pageVars, cubeVars, glVars>>

Translate(a, v) ==
    /\ lib = "ts"
    /\ Len(calls) < limit
    /\ a \in 1..Len(heap)
    /\ LET r == translateCall(heap, a, v)
       IN  /\ heap' = r.heap
           /\ calls' = Append(calls, Call("translate", a, <<v>>, heap, r))
    /\ UNCHANGED <<lib, limit>>
    /\ UNCHANGED <<pageVars, cubeVars, glVars>>

TranslateJs(a, v) ==
    /\ lib = "js"
    /\ Len(calls) < limit
    /\ a \in 1..Len(heap)
    /\ LET r == translateJsCall(heap, a, v)
       IN  /\ heap' = r.heap
           /\ calls' = Append(calls, Call("translate", a, <<v>>, heap, r))
    /\ UNCHANGED <<lib, limit>>
    /\ UNCHANGED <<pageVars, cubeVars, glVars>>

MatNext ==
    \/ Create
    \/ \E p \in MatFrusta : Perspective(p[1], p[2], p[3], p[4])
    \/ \E p \in MatFrusta : PerspectiveJs(p[1], p[2], p[3], p[4])
    \/ \E a \in 1..Len(heap), rad \in MatAngles, axis \in MatAxes : Rotate(a, rad, axis)
    \/ \E a \in 1..Len(heap), v \in MatVectors : Translate(a, v)
    \/ \E a \in 1..Len(heap), v \in MatVectors : TranslateJs(a, v)

MatSpec == MatInit /\ [][MatNext]_vars

---------------------------------------------------------------------------
(* perspective called with many frusta *)

PerspFovs == {Num(1, 2), Lit(2)}

PerspAspects == {Num(4, 3)}

PerspNears == {Num(1, 10), Lit(1)}

PerspFars == {Lit(1), Lit(2), Lit(100), Infinity, Null}

PerspNext ==
    \/ \E fovy \in PerspFovs, aspect \in PerspAspects, near \in PerspNears,
          far \in PerspFars : Perspective(fovy, aspect, near, far)
    \/ \E fovy \in PerspFovs, aspect \in PerspAspects, near \in PerspNears,
          far \in PerspFars : PerspectiveJs(fovy, aspect, near, far)

PerspSpec == MatInit /\ [][PerspNext]_vars

---------------------------------------------------------------------------
(* The composition scenario: identity, one offset, one quarter turn *)

QuarterTurn == <<1, 0>>

ZAxis == <<Lit(0), Lit(0), Lit(1)>>

Offset == <<Lit(5), Lit(0), Lit(0)>>

OrderInit ==
    /\ lib \in {"ts", "js"}
    /\ heap = <<>>
    /\ calls = <<>>
    /\ limit = MaxOrderCalls
    /\ PageIdle
    /\ CubeIdle
    /\ GlIdle

OrderNext ==
    \/ Create
    \/ \E a \in 1..Len(heap) : Rotate(a, QuarterTurn, ZAxis)
    \/ \E a \in 1..Len(heap) : Translate(a, Offset)
    \/ \E a \in 1..Len(heap) : TranslateJs(a, Offset)

OrderSpec == OrderInit /\ [][OrderNext]_vars

---------------------------------------------------------------------------
(* Vocabulary of the claims about the matrix library *)

\* every element of m is a finite number
FiniteMatrix(m) == \A i \in 1..Len(m) : IsFinite(m[i])

\* the value the call c was handed as its matrix argument
ArgBefore(c) == c.before[c.a]

\* elements 12..15 of m
TranslationColumn(m) == <<El(m, 12), El(m, 13), El(m, 14), El(m, 15)>>

\* the call that returned last
LastCall == calls[Len(calls)]

---------------------------------------------------------------------------
(* Claims about rotate and translate, checked under MatSpec *)

\* C1: for a finite matrix m and a non-zero axis, rotate(m, angle, axis) is the full
\* 4x4 product m * R, R the Rodrigues rotation about the normalised axis embedded in
\* the identity; elements 12..15 of the result are elements 12..15 of m.
C1_RotateIsProduct ==
    (/\ calls # <<>>
     /\ LastCall.op = "rotate"
     /\ LastCall.args[2] # ZeroAxis
     /\ FiniteMatrix(ArgBefore(LastCall)))
    => /\ LastCall.out = MatMul(ArgBefore(LastCall),
                                Rodrigues4(LastCall.args[1], LastCall.args[2]))
       /\ TranslationColumn(LastCall.out) = TranslationColumn(ArgBefore(LastCall))

\* a dense matrix whose fourth row is not (0, 0, 0, 1) was rotated by alpha about
\* (1, 2, 2)
C1_Witness ==
    /\ calls # <<>>
    /\ LastCall.op = "rotate"
    /\ LastCall.args = <<<<0, 1>>, <<Lit(1), Lit(2), Lit(2)>>>>
    /\ ArgBefore(LastCall) = SampleMatrix(1)
    /\ El(ArgBefore(LastCall), 3) # Lit(0)
    /\ El(ArgBefore(LastCall), 12) # Lit(0)

C3_InputsNeverModified ==
    \A i \in 1..Len(calls) :
        calls[i].op \in {"rotate", "translate", "perspective"}
        => /\ calls[i].ret \notin 1..Len(calls[i].before)
           /\ calls[i].ret # calls[i].a
           /\ calls[i].ret \in 1..Len(heap)
           /\ Len(calls[i].out) = 16
           /\ Len(heap[calls[i].ret]) = 16
           /\ \A j \in 1..Len(calls[i].before) : heap[j] = calls[i].before[j]

\* two calls were handed the same matrix, and each returned a different one
C3_Witness ==
    /\ Len(calls) = 2
    /\ calls[1].op = "translate"
    /\ calls[2].op \in {"translate", "rotate"}
    /\ calls[1].a = calls[2].a
    /\ calls[1].out # ArgBefore(calls[1])
    /\ calls[2].out # ArgBefore(calls[2])

\* C5: for a finite matrix m and a non-zero axis, rotating rotate(m, rad, axis) by
\* -rad about the same axis returns m, all 16 elements.
C5_RotateBackRecovers ==
    \A i \in 1..Len(calls) :
        (/\ i < Len(calls)
         /\ calls[i].op = "rotate" /\ LastCall.op = "rotate"
         /\ LastCall.a = calls[i].ret
         /\ LastCall.args = <<NegAngle(calls[i].args[1]), calls[i].args[2]>>
         /\ calls[i].args[2] # ZeroAxis
         /\ FiniteMatrix(ArgBefore(calls[i])))
        => LastCall.out = ArgBefore(calls[i])

\* a dense matrix was rotated by alpha about (1, 2, 2) and back
C5_Witness ==
    /\ Len(calls) = 2
    /\ calls[1].op = "rotate" /\ calls[2].op = "rotate"
    /\ calls[2].a = calls[1].ret
    /\ calls[1].args = <<<<0, 1>>, <<Lit(1), Lit(2), Lit(2)>>>>
    /\ calls[2].args = <<<<0, -1>>, <<Lit(1), Lit(2), Lit(2)>>>>
    /\ ArgBefore(calls[1]) = SampleMatrix(2)
    /\ calls[1].out # ArgBefore(calls[1])

---------------------------------------------------------------------------
(* Claims about composition order, checked under OrderSpec *)

\* call i is op(args) on the object that call k returned
AppliedTo(i, op, args, k) ==
    /\ calls[i].op = op
    /\ calls[i].args = args
    /\ calls[i].a = calls[k].ret

\* call i returned rotate(translate(identity(), [5,0,0]), pi/2, [0,0,1])
IsRotatedTranslation(i) ==
    \E k, n \in 1..Len(calls) :
        /\ calls[n].op = "create"
        /\ AppliedTo(k, "translate", <<Offset>>, n)
        /\ AppliedTo(i, "rotate", <<QuarterTurn, ZAxis>>, k)

\* call i returned translate(rotate(identity(), pi/2, [0,0,1]), [5,0,0])
IsTranslatedRotation(i) ==
    \E k, n \in 1..Len(calls) :
        /\ calls[n].op = "create"
        /\ AppliedTo(k, "rotate", <<QuarterTurn, ZAxis>>, n)
        /\ AppliedTo(i, "translate", <<Offset>>, k)

\* C4: the translation column of rotate(translate(identity(), [5,0,0]), pi/2, [0,0,1])
\* stays (5, 0, 0, 1) and differs from that of translate(rotate(identity(), pi/2,
\* [0,0,1]), [5,0,0]), which is the rotated offset (0, 5, 0, 1).
C4_OrderMatters ==
    \A i, j \in 1..Len(calls) :
        (IsRotatedTranslation(i) /\ IsTranslatedRotation(j))
        => /\ TranslationColumn(calls[i].out) # TranslationColumn(calls[j].out)
           /\ TranslationColumn(calls[i].out) = <<Lit(5), Lit(0), Lit(0), Lit(1)>>
           /\ TranslationColumn(calls[j].out) = <<Lit(0), Lit(5), Lit(0), Lit(1)>>

\* both compositions have been computed
C4_Witness ==
    \E i, j \in 1..Len(calls) : IsRotatedTranslation(i) /\ IsTranslatedRotation(j)

---------------------------------------------------------------------------
(* Claims about perspective, checked under PerspSpec *)

\* clip z over clip w of the camera-space point (0, 0, z, 1) under m
Depth(m, z) == Div(Add(Mul(El(m, 10), z), El(m, 14)), Neg(z))

\* fov in (0, pi), aspect > 0 and finite far > near > 0
ValidFrustum(fovy, aspect, near, far) ==
    /\ IsFinite(TanHalf(fovy)) /\ Less(Lit(0), TanHalf(fovy))
    /\ IsFinite(aspect) /\ Less(Lit(0), aspect)
    /\ FarIsFinite(far)
    /\ IsFinite(far) /\ IsFinite(near)
    /\ Less(Lit(0), near) /\ Less(near, far)

\* C6: for fov in (0, pi), aspect > 0 and finite far > near > 0, perspective maps
\* (0, 0, -near, 1) to depth -1 and (0, 0, -far, 1) to depth +1.
C6_DepthRange ==
    (/\ calls # <<>>
     /\ LastCall.op = "perspective"
     /\ ValidFrustum(LastCall.args[1], LastCall.args[2], LastCall.args[3],
                     LastCall.args[4]))
    => /\ Depth(LastCall.out, Neg(LastCall.args[3])) = Lit(-1)
       /\ Depth(LastCall.out, Neg(LastCall.args[4])) = Lit(1)

\* a frustum from 1/10 to 100 was asked of each build's perspective
C6_Witness ==
    /\ calls # <<>>
    /\ LastCall.op = "perspective"
    /\ LastCall.args[3] = Num(1, 10)
    /\ LastCall.args[4] = Lit(100)
    /\ El(LastCall.out, 10) = Num(-1001, 999)


-----------------------------------------------------------------------------
(* src/cubes.ts: the wireframe cubes *)

\* the number of cubes (100 in src/cubes.ts:92)
NumShapes == 2

\* the sizes the page gives the canvas when the script loads
LoadSizes == {<<20, 10>>, <<500, 300>>}

\* the size a later layout change gives the canvas
ResizedSizes == {<<800, 600>>}

\* window.devicePixelRatio
devicePixelRatio == Lit(2)

\* the values Math.random() returns, per call site of the constructor
RandomX == {Num(1, 4), Num(1, 2)}
RandomY == {Num(1, 2)}
RandomZ == {Lit(0), Num(1, 5), Num(1, 2)}
RandomRadius == {Num(1, 20)}

lines ==
    << <<0, 1>>, <<1, 3>>, <<3, 2>>, <<2, 0>>, <<2, 6>>, <<3, 7>>,
       <<0, 4>>, <<1, 5>>, <<6, 7>>, <<6, 4>>, <<7, 5>>, <<4, 5>> >>

vertices ==
    << <<-1, -1, -1>>, <<1, -1, -1>>, <<-1, 1, -1>>, <<1, 1, -1>>,
       <<-1, -1, 1>>, <<1, -1, 1>>, <<-1, 1, 1>>, <<1, 1, 1>> >>

\* new Cube(), the four values of Math.random() and canvas.clientWidth given
Cube(rx, ry, rz, rr, width) ==
    [x |-> Mul(Sub(rx, Num(1, 2)), width),
     y |-> Mul(Sub(ry, Num(1, 2)), width),
     z |-> Mul(Sub(rz, Num(1, 2)), width),
     radius |-> Floor(Add(Mul(rr, Lit(12)), Lit(10)))]

\* project with the globals it reads as arguments
projectWith(x, y, z, fov, width, height) ==
    LET sizeProjection == Div(fov, Add(fov, z))
    IN  [size |-> sizeProjection,
         x |-> Add(Mul(x, sizeProjection), Div(width, Lit(2))),
         y |-> Add(Mul(y, sizeProjection), Div(height, Lit(2)))]

\* project reading the size of the drawing buffer
projectCanvasSize(x, y, z) ==
    projectWith(x, y, z, FIELD_OF_VIEW, canvasSize[1], canvasSize[2])

project(x, y, z) ==
    projectWith(x, y, z, FIELD_OF_VIEW, clientWidth, clientHeight)

\* the early return of draw, taken at the boundary as well
culledInclusive(cube) ==
    ~ Less(Add(Neg(FIELD_OF_VIEW), cube.radius), cube.z)

\* the early return of draw
culled(cube) ==
    Less(cube.z, Add(Neg(FIELD_OF_VIEW), cube.radius))

\* v1 and v2 of draw: the corner of the cube at an index of vertices
corner(cube, i) ==
    [x |-> Add(cube.x, Mul(cube.radius, Lit(vertices[i + 1][1]))),
     y |-> Add(cube.y, Mul(cube.radius, Lit(vertices[i + 1][2]))),
     z |-> Add(cube.z, Mul(cube.radius, Lit(vertices[i + 1][3])))]

\* the callback of lines.forEach, for one pair of indices: its calls on ctx
drawLine(cube, line) ==
    LET v1 == corner(cube, line[1])
        v2 == corner(cube, line[2])
        v1Project == project(v1.x, v1.y, v1.z)
        v2Project == project(v2.x, v2.y, v2.z)
    IN  << <<"beginPath">>,
           <<"moveTo", v1Project.x, v1Project.y>>,
           <<"lineTo", v2Project.x, v2Project.y>>,
           <<"stroke">> >>

\* lines.forEach from the i-th pair on
RECURSIVE forEachLine(_, _)
forEachLine(cube, i) ==
    IF i > Len(lines) THEN <<>>
    ELSE drawLine(cube, lines[i]) \o forEachLine(cube, i + 1)

draw(cube) ==
    IF culled(cube) THEN <<>> ELSE forEachLine(cube, 1)

\* the for loop of render from index i on
RECURSIVE drawShapes(_)
drawShapes(i) ==
    IF i > Len(shapes) THEN <<>>
    ELSE draw(shapes[i]) \o drawShapes(i + 1)

\* history: one call of project, its arguments and what it returns
Projected(v) == [x |-> v.x, y |-> v.y, z |-> v.z, ret |-> project(v.x, v.y, v.z)]

\* history: the calls of project that draw makes from the i-th pair of lines on
RECURSIVE projectCalls(_, _)
projectCalls(cube, i) ==
    IF culled(cube) \/ i > Len(lines) THEN <<>>
    ELSE <<Projected(corner(cube, lines[i][1])), Projected(corner(cube, lines[i][2]))>>
            \o projectCalls(cube, i + 1)

\* history: the calls of project in the for loop of render from index i on
RECURSIVE loopProjectCalls(_)
loopProjectCalls(i) ==
    IF i > Len(shapes) THEN <<>>
    ELSE projectCalls(shapes[i], 1) \o loopProjectCalls(i + 1)

\* history: the indices the for loop of render visits from index i on
RECURSIVE loopIndices(_)
loopIndices(i) ==
    IF i > Len(shapes) THEN <<>> ELSE <<i>> \o loopIndices(i + 1)

\* a render that does not ask for the next frame
requestNothing(queue) == queue

\* requestAnimationFrame(render), on the number of callbacks held
requestAnimationFrame(queue) == queue + 1

\* the state when the script has run to its end
CubeInit ==
    /\ MatIdle
    /\ GlIdle
    /\ \E size \in LoadSizes :
          /\ clientWidth = Lit(size[1])
          /\ clientHeight = Lit(size[2])
          /\ canvasSize = <<Mul(Lit(size[1]), devicePixelRatio),
                            Mul(Lit(size[2]), devicePixelRatio)>>
          /\ FIELD_OF_VIEW = Mul(Lit(size[1]), Num(4, 5))
          /\ shapes \in [1..NumShapes ->
                            {Cube(rx, ry, rz, rr, Lit(size[1])) :
                                rx \in RandomX, ry \in RandomY,
                                rz \in RandomZ, rr \in RandomRadius}]
    /\ ops = << <<"scale", devicePixelRatio, devicePixelRatio>> >>
    /\ pending = requestAnimationFrame(0)
    /\ drawn = <<>>
    /\ projections = <<>>
    /\ frame = 0

\* the browser runs a callback it holds: one call of render
Render ==
    /\ pending > 0
    /\ ops' = << <<"clearRect", Lit(0), Lit(0), clientWidth, clientHeight>> >>
                 \o drawShapes(1)
    /\ drawn' = loopIndices(1)
    /\ projections' = loopProjectCalls(1)
    /\ pending' = requestAnimationFrame(pending - 1)
    /\ frame' = 1 - frame
    /\ UNCHANGED <<clientWidth, clientHeight, canvasSize, FIELD_OF_VIEW, shapes>>
    /\ UNCHANGED <<matVars, glVars>>

\* the page's layout gives the canvas another size
Resize(size) ==
    /\ <<clientWidth, clientHeight>> # <<Lit(size[1]), Lit(size[2])>>
    /\ clientWidth' = Lit(size[1])
    /\ clientHeight' = Lit(size[2])
    /\ UNCHANGED <<pending, frame>>
    /\ UNCHANGED <<matVars, cubeVars, glVars>>

CubeNext ==
    \/ Render
    \/ \E size \in ResizedSizes : Resize(size)

CubeSpec == CubeInit /\ [][CubeNext]_vars

\* a callback is held and a frame runs; within CubeNext, the steps of Render
FrameRuns == pending > 0 /\ frame' = 1 - frame

\* the browser refreshes the display again and again, running what it holds
CubeFairSpec == CubeSpec /\ WF_frame(FrameRuns)

-----------------------------------------------------------------------------
(* Claims checked under CubeSpec *)

\* a frame has run since the script loaded
FrameRan == drawn # <<>>

\* the viewport's width and height as the latest frame read them
FrameWidth == ops[1][4]
FrameHeight == ops[1][5]

\* C7: project(x, y, z) returns the scale FIELD_OF_VIEW / (FIELD_OF_VIEW + z)
\* and the screen position (x * scale + width / 2, y * scale + height / 2),
\* where width and height are the viewport's size when project is called;
\* with FIELD_OF_VIEW 400 and a viewport 800 wide the point (-10, -10, -10)
\* has scale 400/390 and screen x -10 * 400/390 + 400.
C7_ProjectFormula ==
    \A i \in 1..Len(projections) :
        LET p == projections[i]
            scale == Div(FIELD_OF_VIEW, Add(FIELD_OF_VIEW, p.z))
        IN  /\ p.ret.size = scale
            /\ p.ret.x = Add(Mul(p.x, scale), Div(FrameWidth, Lit(2)))
            /\ p.ret.y = Add(Mul(p.y, scale), Div(FrameHeight, Lit(2)))
            /\ (/\ FIELD_OF_VIEW = Lit(400)
                /\ FrameWidth = Lit(800)
                /\ <<p.x, p.y, p.z>> = <<Lit(-10), Lit(-10), Lit(-10)>>)
               => /\ p.ret.size = Num(400, 390)
                  /\ p.ret.x = Add(Mul(Lit(-10), Num(400, 390)), Lit(400))

C7_Witness ==
    /\ FIELD_OF_VIEW = Lit(400)
    /\ FrameRan
    /\ FrameWidth = Lit(800)
    /\ \E i \in 1..Len(projections) :
          /\ <<projections[i].x, projections[i].y, projections[i].z>>
                = <<Lit(-10), Lit(-10), Lit(-10)>>
          /\ projections[i].ret.size = Num(40, 39)
          /\ projections[i].ret.x = Num(15200, 39)

\* the cube is in front of the cull distance: not (z < -FIELD_OF_VIEW + radius)
Visible(cube) == ~ Less(cube.z, Add(Neg(FIELD_OF_VIEW), cube.radius))

\* the number of visible cubes among the first n
RECURSIVE VisibleBefore(_)
VisibleBefore(n) ==
    IF n = 0 THEN 0
    ELSE VisibleBefore(n - 1) + (IF Visible(shapes[n]) THEN 1 ELSE 0)

\* the screen position of a corner of a cube, in the viewport of the latest frame
ScreenCorner(cube, v) ==
    LET at == projectWith(Add(cube.x, Mul(cube.radius, Lit(vertices[v + 1][1]))),
                          Add(cube.y, Mul(cube.radius, Lit(vertices[v + 1][2]))),
                          Add(cube.z, Mul(cube.radius, Lit(vertices[v + 1][3]))),
                          FIELD_OF_VIEW, FrameWidth, FrameHeight)
    IN  <<at.x, at.y>>

\* C8: draw emits nothing for a cube with z < -FIELD_OF_VIEW + radius (z = -500
\* with radius 10 and FIELD_OF_VIEW 400) and otherwise (z = -100) exactly twelve
\* segments, one per entry of lines in the order of lines, each from the
\* projection of position + radius * vertex for its first index to that for
\* its second.
C8_DrawCullsOrStrokesTwelve ==
    /\ FIELD_OF_VIEW = Lit(400)
          => /\ culled([x |-> Lit(0), y |-> Lit(0), z |-> Lit(-500), radius |-> Lit(10)])
             /\ ~ culled([x |-> Lit(0), y |-> Lit(0), z |-> Lit(-100), radius |-> Lit(10)])
    /\ FrameRan =>
          /\ Len(ops) = 1 + 4 * Len(lines) * VisibleBefore(Len(shapes))
          /\ \A n \in 1..Len(shapes) :
                Visible(shapes[n]) =>
                    \A j \in 1..12 :
                        LET at == 1 + 4 * 12 * VisibleBefore(n - 1) + 4 * (j - 1)
                        IN  /\ ops[at + 1] = <<"beginPath">>
                            /\ ops[at + 2] = <<"moveTo">> \o ScreenCorner(shapes[n], lines[j][1])
                            /\ ops[at + 3] = <<"lineTo">> \o ScreenCorner(shapes[n], lines[j][2])
                            /\ ops[at + 4] = <<"stroke">>

C8_Witness ==
    /\ FrameRan
    /\ \E n \in 1..Len(shapes) : ~ Visible(shapes[n])
    /\ \E n \in 1..Len(shapes) :
          /\ shapes[n].z = Add(Neg(FIELD_OF_VIEW), shapes[n].radius)
          /\ VisibleBefore(n) = VisibleBefore(n - 1) + 1
    /\ Len(ops) > 1
    /\ Len(ops) < 1 + 48 * Len(shapes)

-----------------------------------------------------------------------------
(* Claims checked under CubeFairSpec *)

\* C10: every call of render clears the viewport first, then calls draw on
\* every cube once in the order of shapes, then asks for exactly one next
\* frame, so that another frame always runs in the end; no frame changes a
\* cube's position or radius, or the length or order of shapes.
C10_RenderLoop ==
    /\ [](pending = 1)
    /\ [][frame' # frame =>
            /\ ops'[1] = <<"clearRect", Lit(0), Lit(0), clientWidth, clientHeight>>
            /\ \A i \in 2..Len(ops') : ops'[i][1] # "clearRect"
            /\ drawn' = [i \in 1..Len(shapes) |-> i]
            /\ pending' = pending]_vars
    /\ [][shapes' = shapes]_vars
    /\ []<>(frame = 0)
    /\ []<>(frame = 1)

C10_Witness ==
    /\ frame = 0
    /\ FrameRan
    /\ drawn = [i \in 1..NumShapes |-> i]
    /\ pending = 1
    /\ ops[1][1] = "clearRect"
    /\ <<clientWidth, clientHeight>> # <<FrameWidth, FrameHeight>>

-----------------------------------------------------------------------------
(* src/rainbow-square/script.ts and src/rotating-cube/script.js *)

\* the latest time the browser hands to a frame callback, in steps of FrameStep
MaxTicks == 3

(***************************************************************************)
(* A time in seconds is held like an angle in radians, <<q, k>> standing   *)
(* for q * (pi/2) + k * alpha, so that an angle that grows with the time   *)
(* stays among the angles of rational sine and cosine.                     *)
(***************************************************************************)
AddAngle(a, b) == <<a[1] + b[1], a[2] + b[2]>>

SubAngle(a, b) == <<a[1] - b[1], a[2] - b[2]>>

\* a * n / d, for an a whose two parts d divides
ScaleAngle(a, n, d) == <<(a[1] * n) \div d, (a[2] * n) \div d>>

\* a < b, for multiples of pi/2
AngleLess(a, b) == a[2] = b[2] /\ a[1] < b[1]

\* the times between frames are multiples of 10 * (pi/2) seconds, in milliseconds
FrameStep == <<10000, 0>>

FrameTimes == {ScaleAngle(FrameStep, j, 1) : j \in 1..MaxTicks}

Demos == {"rainbow-square", "rotating-cube"}

\* what getShaderInfoLog and getProgramInfoLog may return
VertexLogs == {"", "ERROR: 0:3: syntax error"}
FragmentLogs == {"ERROR: 0:7: undeclared identifier"}
ProgramLogs == {"", "varyings do not match"}

\* COMPILE_STATUS of the two shaders, LINK_STATUS of the program, and the logs
Backends ==
    [vertex : BOOLEAN, fragment : BOOLEAN, link : BOOLEAN,
     vertexLog : VertexLogs, fragmentLog : FragmentLogs, programLog : ProgramLogs]

\* the sizes the page gives the canvas of a WebGL demo
GlSizes == {<<640, 480>>, <<300, 300>>}

\* the sizes of cubetexture.png
ImageSizes == {<<256, 256>>, <<300, 200>>}

\* gl.getShaderParameter(shader, gl.COMPILE_STATUS)
CompileStatus(type) ==
    IF type = "VERTEX_SHADER" THEN backend.vertex ELSE backend.fragment

\* gl.getShaderInfoLog(shader)
ShaderInfoLog(type) ==
    IF type = "VERTEX_SHADER" THEN backend.vertexLog ELSE backend.fragmentLog

\* loadShader's calls on gl
loadShaderCalls(type) ==
    << <<"createShader", type>>, <<"shaderSource", type>>, <<"compileShader", type>> >>

\* a loadShader that does not look at COMPILE_STATUS
loadShaderUnchecked(type) ==
    [calls |-> loadShaderCalls(type), thrown |-> ""]

loadShader(type) ==
    [calls |-> loadShaderCalls(type),
     thrown |-> IF CompileStatus(type) THEN ""
                ELSE "error compiling shaders: " \o ShaderInfoLog(type)]

\* initShaderProgram from the linking on, the calls made so far given
linkProgram(made) ==
    [calls |-> made \o << <<"linkProgram">> >>,
     thrown |-> IF backend.link THEN ""
                ELSE "error initializing shaders: " \o backend.programLog]

\* initShaderProgram from the second shader on, the calls made so far given
attachFragment(made) ==
    LET shader == loadShader("FRAGMENT_SHADER")
    IN  IF shader.thrown # ""
        THEN [calls |-> made \o shader.calls, thrown |-> shader.thrown]
        ELSE linkProgram(made \o shader.calls
                              \o << <<"attachShader", "FRAGMENT_SHADER">> >>)

initShaderProgram ==
    LET shader == loadShader("VERTEX_SHADER")
    IN  IF shader.thrown # ""
        THEN [calls |-> << <<"createProgram">> >> \o shader.calls,
              thrown |-> shader.thrown]
        ELSE attachFragment(<< <<"createProgram">> >> \o shader.calls
                                \o << <<"attachShader", "VERTEX_SHADER">> >>)

\* new Float32Array(values)
Float32Array(values) == [i \in 1..Len(values) |-> Lit(values[i])]

\* gl.createBuffer, gl.bindBuffer and gl.bufferData for one array
bufferCalls(target, buffer) ==
    << <<"createBuffer">>, <<"bindBuffer", target, buffer>>, <<"bufferData", target>> >>

squarePositions == <<1, 1, -1, 1, 1, -1, -1, -1>>

squareColors == <<1, 1, 1, 1,  1, 0, 0, 1,  0, 1, 0, 1,  0, 0, 1, 1>>

\* initBuffers of the square: its buffers, named by the order they are created in
squareBuffers == [position |-> 1, color |-> 2]

squareInitBuffers ==
    [calls |-> bufferCalls("ARRAY_BUFFER", squareBuffers.position)
                  \o bufferCalls("ARRAY_BUFFER", squareBuffers.color),
     buffers |-> << [target |-> "ARRAY_BUFFER", data |-> Float32Array(squarePositions)],
                    [target |-> "ARRAY_BUFFER", data |-> Float32Array(squareColors)] >>]

cubePositions ==
    << -1, -1,  1,   1, -1,  1,   1,  1,  1,  -1,  1,  1,
       -1, -1, -1,  -1,  1, -1,   1,  1, -1,   1, -1, -1,
       -1,  1, -1,  -1,  1,  1,   1,  1,  1,   1,  1, -1,
       -1, -1, -1,   1, -1, -1,   1, -1,  1,  -1, -1,  1,
        1, -1, -1,   1,  1, -1,   1,  1,  1,   1, -1,  1,
       -1, -1, -1,  -1, -1,  1,  -1,  1,  1,  -1,  1, -1 >>

cubeTextureCoordinates ==
    << 0, 0, 1, 0, 1, 1, 0, 1,
       0, 0, 1, 0, 1, 1, 0, 1,
       0, 0, 1, 0, 1, 1, 0, 1,
       0, 0, 1, 0, 1, 1, 0, 1,
       0, 0, 1, 0, 1, 1, 0, 1,
       0, 0, 1, 0, 1, 1, 0, 1 >>

cubeIndices ==
    <<  0,  1,  2,   0,  2,  3,
        4,  5,  6,   4,  6,  7,
        8,  9, 10,   8, 10, 11,
       12, 13, 14,  12, 14, 15,
       16, 17, 18,  16, 18, 19,
       20, 21, 22,  20, 22, 23 >>

\* initBuffers of the cube: its buffers, named by the order they are created in
cubeBuffers == [position |-> 1, textureCoord |-> 2, indices |-> 3]

cubeInitBuffers ==
    [calls |-> bufferCalls("ARRAY_BUFFER", cubeBuffers.position)
                  \o bufferCalls("ARRAY_BUFFER", cubeBuffers.textureCoord)
                  \o bufferCalls("ELEMENT_ARRAY_BUFFER", cubeBuffers.indices),
     buffers |-> << [target |-> "ARRAY_BUFFER", data |-> Float32Array(cubePositions)],
                    [target |-> "ARRAY_BUFFER",
                     data |-> Float32Array(cubeTextureCoordinates)],
                    [target |-> "ELEMENT_ARRAY_BUFFER", data |-> cubeIndices] >>]

\* loadTexture up to image.src = url
loadTexture ==
    << <<"createTexture">>, <<"bindTexture", "TEXTURE_2D">>,
       <<"texImage2D", "TEXTURE_2D", "pixel">> >>

\* n & m on non-negative integers
RECURSIVE BitAnd(_, _)
BitAnd(n, m) ==
    IF n = 0 \/ m = 0 THEN 0
    ELSE (n % 2) * (m % 2) + 2 * BitAnd(n \div 2, m \div 2)

isPowerOf2(n) == BitAnd(n, n - 1) = 0

\* the first five calls of drawScene
clearScene ==
    << <<"clearColor", 0, 0, 0, 1>>, <<"clearDepth", 1>>, <<"enable", "DEPTH_TEST">>,
       <<"depthFunc", "LEQUAL">>, <<"clear", "COLOR_BUFFER_BIT | DEPTH_BUFFER_BIT">> >>

\* gl.bindBuffer, gl.vertexAttribPointer and gl.enableVertexAttribArray for one attribute
attributeCalls(buffer, attribute, size) ==
    << <<"bindBuffer", "ARRAY_BUFFER", buffer>>,
       <<"vertexAttribPointer", attribute, size, "FLOAT", FALSE, 0, 0>>,
       <<"enableVertexAttribArray", attribute>> >>

(***************************************************************************)
(* The projection matrix is perspective(degToRad(45), aspect, 0.1, 100.0). *)
(* The tangent of half of 45 degrees is not rational, so the matrix is     *)
(* held as the arguments of the call, the field of view in degrees.        *)
(***************************************************************************)
projectionMatrix ==
    [fieldOfView |-> 45, aspect |-> Div(clientWidth, clientHeight),
     zNear |-> Num(1, 10), zFar |-> Lit(100)]

\* [-0.0, 0.0, -6.0]
amountToTranslate == <<Lit(0), Lit(0), Lit(-6)>>

\* drawScene of the square: its calls on gl
squareDrawScene ==
    clearScene
        \o attributeCalls(squareBuffers.position, "aVertexPosition", 2)
        \o attributeCalls(squareBuffers.color, "aVertexColor", 4)
        \o << <<"useProgram">>,
              <<"uniformMatrix4fv", "uProjectionMatrix", FALSE, projectionMatrix>>,
              <<"uniformMatrix4fv", "uModelViewMatrix", FALSE,
                translate(create, amountToTranslate)>>,
              <<"drawArrays", "TRIANGLE_STRIP", 0, 4>> >>

\* a modelViewMatrix that is moved between the two turns
cubeModelViewMatrixOrbiting ==
    rotate(translate(rotate(create, ScaleAngle(cubeRotation, 7, 10),
                            <<Lit(0), Lit(1), Lit(0)>>),
                     amountToTranslate),
           cubeRotation, <<Lit(0), Lit(0), Lit(1)>>)

\* a modelViewMatrix that is turned first and moved last
cubeModelViewMatrixMovedLast ==
    translate(rotate(rotate(create, cubeRotation, <<Lit(0), Lit(0), Lit(1)>>),
                     ScaleAngle(cubeRotation, 7, 10), <<Lit(0), Lit(1), Lit(0)>>),
              amountToTranslate)

\* modelViewMatrix of the cube's drawScene
cubeModelViewMatrix ==
    rotate(rotate(translate(create, amountToTranslate),
                  cubeRotation, <<Lit(0), Lit(0), Lit(1)>>),
           ScaleAngle(cubeRotation, 7, 10), <<Lit(0), Lit(1), Lit(0)>>)

\* drawScene of the cube: its calls on gl
cubeDrawScene ==
    clearScene
        \o attributeCalls(cubeBuffers.position, "aVertexPosition", 3)
        \o attributeCalls(cubeBuffers.textureCoord, "aTextureCoord", 4)
        \o << <<"bindBuffer", "ELEMENT_ARRAY_BUFFER", cubeBuffers.indices>>,
              <<"useProgram">>,
              <<"uniformMatrix4fv", "uProjectionMatrix", FALSE, projectionMatrix>>,
              <<"uniformMatrix4fv", "uModelViewMatrix", FALSE, cubeModelViewMatrix>>,
              <<"activeTexture", "TEXTURE0">>,
              <<"bindTexture", "TEXTURE_2D">>,
              <<"uniform1i", "uSampler", 0>>,
              <<"drawElements", "TRIANGLES", 36, "UNSIGNED_SHORT", 0>> >>

\* main of the square, as what it leaves behind
squareMain ==
    LET clearCanvas == << <<"clearColor", 0, 0, 0, 1>>, <<"clear", "COLOR_BUFFER_BIT">> >>
        program == initShaderProgram
    IN  IF program.thrown # ""
        THEN [calls |-> clearCanvas \o program.calls, thrown |-> program.thrown,
              buffers |-> <<>>, pending |-> pending, image |-> "none"]
        ELSE [calls |-> clearCanvas \o program.calls \o squareInitBuffers.calls
                            \o squareDrawScene,
              thrown |-> "", buffers |-> squareInitBuffers.buffers,
              pending |-> pending, image |-> "none"]

\* main of the cube, as what it leaves behind
cubeMain ==
    LET program == initShaderProgram
    IN  IF program.thrown # ""
        THEN [calls |-> program.calls, thrown |-> program.thrown,
              buffers |-> <<>>, pending |-> pending, image |-> "none"]
        ELSE [calls |-> program.calls \o cubeInitBuffers.calls \o loadTexture,
              thrown |-> "", buffers |-> cubeInitBuffers.buffers,
              pending |-> requestAnimationFrame(pending), image |-> "loading"]

\* the page before its script runs
GlInit ==
    /\ MatIdle
    /\ CubeIdle
    /\ \E size \in GlSizes :
          /\ clientWidth = Lit(size[1])
          /\ clientHeight = Lit(size[2])
    /\ pending = 0
    /\ frame = 0
    /\ demo \in Demos
    /\ backend \in Backends
    /\ mainState = "loading"
    /\ thrown = ""
    /\ glCalls = <<>>
    /\ glBuffers = <<>>
    /\ image = "none"
    /\ then = <<0, 0>>
    /\ cubeRotation = <<0, 0>>

\* the script runs: main(), to its return or to the Error it throws
Main ==
    /\ mainState = "loading"
    /\ LET run == IF demo = "rainbow-square" THEN squareMain ELSE cubeMain
       IN  /\ mainState' = IF run.thrown = "" THEN "returned" ELSE "threw"
           /\ thrown' = run.thrown
           /\ glCalls' = run.calls
           /\ glBuffers' = run.buffers
           /\ pending' = run.pending
           /\ image' = run.image
    /\ UNCHANGED <<demo, backend, then, cubeRotation, clientWidth, clientHeight, frame>>
    /\ UNCHANGED <<matVars, cubeVars>>

\* the browser runs the callback it holds: render(now) of the cube
RenderScene(now) ==
    /\ pending > 0
    /\ AngleLess(then, ScaleAngle(now, 1, 1000))
    /\ LET seconds == ScaleAngle(now, 1, 1000)
           deltaTime == SubAngle(seconds, then)
       IN  /\ then' = seconds
           /\ glCalls' = cubeDrawScene
           /\ cubeRotation' = AddAngle(cubeRotation, deltaTime)
    /\ pending' = requestAnimationFrame(pending - 1)
    /\ frame' = 1 - frame
    /\ UNCHANGED <<demo, backend, mainState, thrown, glBuffers, image,
                   clientWidth, clientHeight>>
    /\ UNCHANGED <<matVars, cubeVars>>

\* image.onload of loadTexture
ImageOnload(size) ==
    /\ image = "loading"
    /\ image' = "loaded"
    /\ glCalls' = << <<"bindTexture", "TEXTURE_2D">>,
                     <<"texImage2D", "TEXTURE_2D", "image">> >>
                    \o IF isPowerOf2(size[1]) /\ isPowerOf2(size[2])
                       THEN << <<"generateMipmap", "TEXTURE_2D">> >>
                       ELSE << <<"texParameteri", "TEXTURE_WRAP_S", "CLAMP_TO_EDGE">>,
                               <<"texParameteri", "TEXTURE_WRAP_T", "CLAMP_TO_EDGE">>,
                               <<"texParameteri", "TEXTURE_MIN_FILTER", "LINEAR">> >>
    /\ UNCHANGED <<demo, backend, mainState, thrown, glBuffers, then, cubeRotation>>
    /\ UNCHANGED <<matVars, pageVars, cubeVars>>

GlNext ==
    \/ Main
    \/ \E now \in FrameTimes : RenderScene(now)
    \/ \E size \in ImageSizes : ImageOnload(size)
    \/ \E size \in ResizedSizes : Resize(size)

GlSpec == GlInit /\ [][GlNext]_vars

-----------------------------------------------------------------------------
(* Claims checked under GlSpec *)

\* the names of the calls in glCalls
CallNames == {glCalls[i][1] : i \in 1..Len(glCalls)}

\* the first stage the backend fails, "" if none; main goes through them in order
FailedStage ==
    IF ~ backend.vertex \/ ~ backend.fragment THEN "compile"
    ELSE IF ~ backend.link THEN "link" ELSE ""

\* the log of the object that failed
FailedLog ==
    IF ~ backend.vertex THEN backend.vertexLog
    ELSE IF ~ backend.fragment THEN backend.fragmentLog
    ELSE backend.programLog

\* C9: if compiling a shader or linking the program fails, main ends by
\* throwing an Error whose message names the stage ("compiling" for a compile
\* failure, "initializing" for a link failure) followed by the backend's log
\* of the object that failed; then and ever after no buffer exists, no draw
\* call is made and no frame callback is held.
C9_ShaderFailureAborts ==
    (mainState # "loading" /\ FailedStage # "") =>
        /\ mainState = "threw"
        /\ FailedStage = "compile" => thrown = "error compiling shaders: " \o FailedLog
        /\ FailedStage = "link" => thrown = "error initializing shaders: " \o FailedLog
        /\ glBuffers = <<>>
        /\ CallNames \cap {"createBuffer", "bufferData", "drawArrays", "drawElements"} = {}
        /\ pending = 0
        /\ frame = 0
        /\ image = "none"

C9_Witness ==
    /\ demo = "rotating-cube"
    /\ mainState = "threw"
    /\ backend.vertex /\ backend.fragment /\ ~ backend.link
    /\ thrown = "error initializing shaders: varyings do not match"
    /\ "linkProgram" \in CallNames
    /\ <<clientWidth, clientHeight>> = <<Lit(800), Lit(600)>>

\* a frame of the cube has run since main returned
SceneDrawn ==
    \E i \in 1..Len(glCalls) : glCalls[i][1] = "drawElements"

\* the matrix the latest frame handed to the backend as uModelViewMatrix
ModelViewHandedOver ==
    LET i == CHOOSE j \in 1..Len(glCalls) :
                /\ glCalls[j][1] = "uniformMatrix4fv"
                /\ glCalls[j][2] = "uModelViewMatrix"
    IN  glCalls[i][4]

\* the matrix that moves by the object's offset (0, 0, -6) and does nothing else
OffsetMatrix ==
    [i \in 1..16 |->
        IF i \in {1, 6, 11, 16} THEN Lit(1) ELSE IF i = 15 THEN Lit(-6) ELSE Lit(0)]

\* identity, moved by the offset, turned by primary about z, then by secondary about y
Tumbled(primary, secondary) ==
    MatMul(MatMul(OffsetMatrix, Rodrigues4(primary, <<Lit(0), Lit(0), Lit(1)>>)),
           Rodrigues4(secondary, <<Lit(0), Lit(1), Lit(0)>>))

\* C11: a frame of the cube leaves cubeRotation increased by the time between
\* the timestamp of the frame before (0 for the first frame) and its own, so
\* that the angle is the latest timestamp in seconds; the matrix it hands over
\* is built from the angle as it was before that one write: the identity,
\* translated by the offset, rotated about z by the angle, then rotated about
\* y by 0.7 times the angle.
C11_AngleAndComposition ==
    [][frame' # frame =>
          /\ cubeRotation' = AddAngle(cubeRotation, SubAngle(then', then))
          /\ cubeRotation = then
          /\ cubeRotation' = then'
          /\ \E secondary \in {ScaleAngle(cubeRotation, 7, 10)} :
                /\ ScaleAngle(secondary, 10, 1) = ScaleAngle(cubeRotation, 7, 1)
                /\ ModelViewHandedOver' = Tumbled(cubeRotation, secondary)]_vars

C11_Witness ==
    /\ SceneDrawn
    /\ cubeRotation = <<30, 0>>
    /\ ModelViewHandedOver = Tumbled(<<10, 0>>, <<7, 0>>)
    /\ ModelViewHandedOver # OffsetMatrix

\* the places in glCalls of the calls with a name
CallsNamed(name) == {i \in 1..Len(glCalls) : glCalls[i][1] = name}

\* the buffer bound to ARRAY_BUFFER when call i of glCalls is made
ArrayBufferAt(i) ==
    LET binds == {j \in CallsNamed("bindBuffer") :
                     j < i /\ glCalls[j][2] = "ARRAY_BUFFER"}
        last == CHOOSE j \in binds : \A k \in binds : k <= j
    IN  glCalls[last][3]

\* the index buffer bound when call i of glCalls is made
ElementBufferAt(i) ==
    LET binds == {j \in CallsNamed("bindBuffer") :
                     j < i /\ glCalls[j][2] = "ELEMENT_ARRAY_BUFFER"}
        last == CHOOSE j \in binds : \A k \in binds : k <= j
    IN  glCalls[last][3]

\* the indices a draw call at place i of glCalls reads
IndicesRead(i) ==
    IF glCalls[i][1] = "drawArrays"
    THEN {glCalls[i][3] + k : k \in 0..(glCalls[i][4] - 1)}
    ELSE LET data == glBuffers[ElementBufferAt(i)].data
         IN  {data[glCalls[i][5] + k] : k \in 1..glCalls[i][3]}

\* the number of vertices of the object a draw call at place i draws
VertexCount(i) == Cardinality(IndicesRead(i))

\* the draw calls of the latest run
DrawCalls == CallsNamed("drawArrays") \cup CallsNamed("drawElements")

\* C12: for every attribute described to the backend before a draw call, the
\* declared number of components times the number of vertices is the number
\* of values in the buffer the attribute reads, and every index the draw call
\* reads is below the number of vertices.
C12_LayoutMatchesBuffers ==
    \A d \in DrawCalls :
        /\ \A i \in IndicesRead(d) : i < VertexCount(d)
        /\ \A p \in CallsNamed("vertexAttribPointer") :
              p < d => glCalls[p][3] * VertexCount(d)
                          = Len(glBuffers[ArrayBufferAt(p)].data)

\* the cube's texture coordinates: 24 vertices, 48 values, 4 components declared
C12_Witness ==
    /\ demo = "rotating-cube"
    /\ \E d \in CallsNamed("drawElements") :
          /\ VertexCount(d) = 24
          /\ \A i \in IndicesRead(d) : i < 24
          /\ \E p \in CallsNamed("vertexAttribPointer") :
                /\ p < d
                /\ glCalls[p][2] = "aTextureCoord"
                /\ glCalls[p][3] = 4
                /\ Len(glBuffers[ArrayBufferAt(p)].data) = 48
          /\ \E p \in CallsNamed("vertexAttribPointer") :
                /\ p < d
                /\ glCalls[p][2] = "aVertexPosition"
                /\ glCalls[p][3] * 24 = Len(glBuffers[ArrayBufferAt(p)].data)

-----------------------------------------------------------------------------
(* A further claim checked under CubeSpec *)

\* C13: for every cube draw does not skip, each of its 8 corners has
\* FIELD_OF_VIEW + z > 0, so that project never divides by zero: every scale a
\* frame's call of project returns is finite and greater than 0.
C13_CullProtectsProjection ==
    /\ \A n \in 1..Len(shapes) :
          (FrameRan /\ ~ culled(shapes[n])) =>
              \A v \in 0..7 : Less(Lit(0), Add(FIELD_OF_VIEW, corner(shapes[n], v).z))
    /\ \A i \in 1..Len(projections) :
          /\ Add(FIELD_OF_VIEW, projections[i].z) # Lit(0)
          /\ IsFinite(projections[i].ret.size)
          /\ Less(Lit(0), projections[i].ret.size)

\* a frame has drawn a cube that lies exactly at z = -FIELD_OF_VIEW + radius
C13_Witness ==
    /\ FrameRan
    /\ \E n \in 1..Len(shapes) :
          /\ shapes[n].z = Add(Neg(FIELD_OF_VIEW), shapes[n].radius)
          /\ ~ culled(shapes[n])
    /\ \E i \in 1..Len(projections) :
          /\ Add(FIELD_OF_VIEW, projections[i].z) = Lit(0)
          /\ projections[i].ret.size = Infinity
          /\ ~ IsFinite(projections[i].ret.x)

-----------------------------------------------------------------------------
(* A further claim checked under GlSpec *)

\* C14: in every frame of the cube, whatever cubeRotation has grown to, elements
\* 12..15 of the matrix handed over as uModelViewMatrix are exactly the
\* object's offset (0, 0, -6, 1).
C14_OffsetColumnFixed ==
    (demo = "rotating-cube" /\ SceneDrawn) =>
        TranslationColumn(ModelViewHandedOver) = <<Lit(0), Lit(0), Lit(-6), Lit(1)>>

C14_Witness ==
    /\ demo = "rotating-cube"
    /\ SceneDrawn
    /\ cubeRotation = <<20, 0>>
    /\ ModelViewHandedOver # OffsetMatrix
    /\ El(ModelViewHandedOver, 14) = Lit(-6)
    /\ El(ModelViewHandedOver, 0) # Lit(1)

=============================================================================
